---- MODULE Spec2Model ----
(***************************************************************************)
(* A model of the example templates of vibecode-webgui                     *)
(* (src/templates/python): the retrieval routines of the semantic-search   *)
(* and RAG templates, with their floating-point cosine similarity, the     *)
(* chunking of the knowledge base, and the start-up and prompt loop of     *)
(* every interactive template.                                             *)
(***************************************************************************)
EXTENDS Integers, Sequences, FiniteSets, TLC

(***************************************************************************)
(* Bounds of the model.                                                    *)
(***************************************************************************)
\* Bits of significand of the modelled binary floating-point format
\* (float64 has 53).
Prec == 4
\* Largest exponent of the format; the smallest is -ExpMax (float64: 1023).
ExpMax == 3
\* Longest vector the cosine is applied to.
MaxDim == 2
\* Longest text that is chunked, and largest chunk size.
MaxTextLen == 5
MaxChunkSize == 3
\* Most rows of a dataset, or chunks of a knowledge base, that are ranked.
MaxRows == 4

(***************************************************************************)
(* Binary floating point, as numpy computes with it: round to nearest,     *)
(* ties to even, gradual underflow, overflow to infinity, NaN.  A finite   *)
(* value is a whole number n of quanta, the quantum being the smallest     *)
(* subnormal 2^(-ExpMax-Prec+1).                                           *)
(***************************************************************************)
RECURSIVE Pow2(_)
Pow2(k) == IF k <= 0 THEN 1 ELSE 2 * Pow2(k - 1)

Abs(i) == IF i < 0 THEN -i ELSE i
Sgn(i) == IF i < 0 THEN -1 ELSE 1

\* 1.0 in quanta.
One == Pow2(Prec - 1 + ExpMax)
\* The largest finite value in quanta: (2^Prec - 1) * 2^(2*ExpMax).
MaxFin == (Pow2(Prec) - 1) * Pow2(2 * ExpMax)

NaN == [k |-> "nan", n |-> 0]
Inf(s) == [k |-> "inf", n |-> s]
Fin(i) == [k |-> "fin", n |-> i]
Zero == Fin(0)

IsNaN(x) == x.k = "nan"
IsInf(x) == x.k = "inf"
IsFin(x) == x.k = "fin"
IsZero(x) == x.k = "fin" /\ x.n = 0

\* The spacing of the representable values at magnitude m (in quanta).
RECURSIVE Ulp(_)
Ulp(m) == IF m < Pow2(Prec) THEN 1 ELSE 2 * Ulp(m \div 2)

\* num/den quanta (num >= 0, den > 0) rounded to the nearest representable
\* magnitude, ties to the even significand.
RoundMag(num, den) ==
    LET g == Ulp(num \div den)
        m == num \div (den * g)
        r == num - m * den * g
    IN  IF 2 * r > den * g THEN (m + 1) * g
        ELSE IF 2 * r = den * g THEN (m + (m % 2)) * g
        ELSE m * g

\* A rounded magnitude with its sign; beyond the largest finite value it is
\* an infinity.
Rounded(s, mag) == IF mag > MaxFin THEN Inf(s) ELSE Fin(s * mag)

Representable(m) == m >= 0 /\ m <= MaxFin /\ m % Ulp(m) = 0

\* Every value of the format that is not a NaN or an infinity.
Floats == {Fin(s * m) : s \in {-1, 1}, m \in {i \in 0..MaxFin : Representable(i)}}

FMul(x, y) ==
    IF IsNaN(x) \/ IsNaN(y) THEN NaN
    ELSE IF IsInf(x) \/ IsInf(y)
         THEN IF IsZero(x) \/ IsZero(y) THEN NaN ELSE Inf(Sgn(x.n) * Sgn(y.n))
    ELSE Rounded(Sgn(x.n) * Sgn(y.n), RoundMag(Abs(x.n) * Abs(y.n), One))

FAdd(x, y) ==
    IF IsNaN(x) \/ IsNaN(y) THEN NaN
    ELSE IF IsInf(x) /\ IsInf(y) THEN (IF x.n = y.n THEN x ELSE NaN)
    ELSE IF IsInf(x) THEN x
    ELSE IF IsInf(y) THEN y
    ELSE Rounded(Sgn(x.n + y.n), RoundMag(Abs(x.n + y.n), 1))

FDiv(x, y) ==
    IF IsNaN(x) \/ IsNaN(y) THEN NaN
    ELSE IF IsInf(x) THEN (IF IsInf(y) THEN NaN ELSE Inf(x.n * Sgn(y.n)))
    ELSE IF IsInf(y) THEN Zero
    ELSE IF y.n = 0 THEN (IF x.n = 0 THEN NaN ELSE Inf(Sgn(x.n)))
    ELSE Rounded(Sgn(x.n) * Sgn(y.n), RoundMag(Abs(x.n) * One, Abs(y.n)))

\* The whole part of the square root.
RECURSIVE Isqrt(_)
Isqrt(i) ==
    IF i < 2 THEN i
    ELSE LET s == 2 * Isqrt(i \div 4)
         IN  IF (s + 1) * (s + 1) <= i THEN s + 1 ELSE s

\* The correctly rounded square root: sqrt(n quanta) is sqrt(n * One) quanta.
FSqrt(x) ==
    IF IsNaN(x) THEN NaN
    ELSE IF IsInf(x) THEN (IF x.n > 0 THEN x ELSE NaN)
    ELSE IF x.n < 0 THEN NaN
    ELSE LET sq == x.n * One
             r == Isqrt(sq)
             g == Ulp(r)
             c == (r \div g) * g
         IN  IF 4 * sq > (2 * c + g) * (2 * c + g) THEN Fin(c + g) ELSE Fin(c)

\* x >= y as numpy compares: false when either side is a NaN.
FGe(x, y) ==
    IF IsNaN(x) \/ IsNaN(y) THEN FALSE
    ELSE IF IsInf(x) THEN (x.n > 0 \/ (IsInf(y) /\ y.n < 0))
    ELSE IF IsInf(y) THEN y.n < 0
    ELSE x.n >= y.n

\* np.dot of two vectors of one length: the products summed in order.
RECURSIVE DotUpTo(_, _, _)
DotUpTo(a, b, i) ==
    IF i = 0 THEN Zero
    ELSE IF i = 1 THEN FMul(a[1], b[1])
    ELSE FAdd(DotUpTo(a, b, i - 1), FMul(a[i], b[i]))

np_dot(a, b) == DotUpTo(a, b, Len(a))

\* A norm that leaves out the square root.
norm_without_sqrt(a) == np_dot(a, a)

\* np.linalg.norm of a vector: the square root of its dot product with itself.
np_linalg_norm(a) == FSqrt(np_dot(a, a))

\* The cosine distance, 1 - similarity, in place of the similarity.
cosine_distance(a, b) ==
    LET c == FDiv(np_dot(a, b), FMul(np_linalg_norm(a), np_linalg_norm(b)))
    IN  FAdd(Fin(One), [c EXCEPT !.n = -c.n])

\* cosine_similarity of the semantic-search template.
cosine_similarity(a, b) ==
    FDiv(np_dot(a, b), FMul(np_linalg_norm(a), np_linalg_norm(b)))

\* SIMILARITIES_RESULTS_THRESHOLD = 0.75, in quanta.
SIMILARITIES_RESULTS_THRESHOLD == Fin((3 * One) \div 4)

\* TOP_K_RESULTS of the RAG template.
TOP_K_RESULTS == 3

\* The default of get_similar_videos' parameter rows.
DefaultRows == 5

(***************************************************************************)
(* Sequences.                                                              *)
(***************************************************************************)
Min(i, j) == IF i < j THEN i ELSE j

\* The first n elements (DataFrame.head, s[:n]).
head(s, n) == SubSeq(s, 1, Min(n, Len(s)))

\* The first n elements in place of the last (s[:n] for s[-n:]).
FirstN(s, n) == SubSeq(s, 1, Min(n, Len(s)))

\* The last n elements (s[-n:]).
LastN(s, n) == SubSeq(s, Len(s) - Min(n, Len(s)) + 1, Len(s))

\* s[::-1].
Reversed(s) == [i \in 1..Len(s) |-> s[Len(s) + 1 - i]]

\* The elements of s that satisfy keep, in order (boolean-mask indexing).
RECURSIVE Masked(_, _)
Masked(s, keep) ==
    IF s = <<>> THEN <<>>
    ELSE IF keep[Head(s)] THEN <<Head(s)>> \o Masked(Tail(s), keep)
    ELSE Masked(Tail(s), keep)

\* Every arrangement of the elements of the set S in a sequence.
RECURSIVE Arrangements(_)
Arrangements(S) ==
    IF S = {} THEN {<<>>}
    ELSE UNION {{<<x>> \o p : p \in Arrangements(S \ {x})} : x \in S}

\* x sorts before or with y in numpy's order of floats: NaN is last.
SortsLeq(x, y) ==
    IF IsNaN(y) THEN TRUE
    ELSE IF IsNaN(x) THEN FALSE
    ELSE FGe(y, x)

(***************************************************************************)
(* Retrieval of the semantic-search template.  A dataset is a sequence of  *)
(* rows; a row is named by its position, and dataset[i] is the ada_v2      *)
(* vector of row i.                                                        *)
(***************************************************************************)
\* The similarity column: cosine_similarity(query, x) for every row.
SimilarityColumn(dataset, query_embeddings) ==
    [i \in 1..Len(dataset) |-> cosine_similarity(query_embeddings, dataset[i])]

\* A mask that lets every row through.
MaskRows_all(similarity) == [i \in 1..Len(similarity) |-> i]

\* video_vectors[mask]: the rows at or above the threshold, in dataset order.
MaskRows(similarity) ==
    Masked([i \in 1..Len(similarity) |-> i],
           [i \in 1..Len(similarity) |->
               FGe(similarity[i], SIMILARITIES_RESULTS_THRESHOLD)])

\* sort_values with the default ascending=True.
sort_values_asc(idx, similarity) ==
    {p \in Arrangements({idx[i] : i \in 1..Len(idx)}) :
        \A i \in 1..(Len(p) - 1) : FGe(similarity[p[i + 1]], similarity[p[i]])}

\* sort_values(by="similarity", ascending=False) with the default quicksort,
\* which is not stable: every order of the rows that is non-increasing in
\* similarity is a possible outcome.
sort_values_desc(idx, similarity) ==
    {p \in Arrangements({idx[i] : i \in 1..Len(idx)}) :
        \A i \in 1..(Len(p) - 1) : FGe(similarity[p[i]], similarity[p[i + 1]])}

\* get_similar_videos: the possible results, each the similarity column
\* computed and the sequence of the rows returned.
get_similar_videos(query_embeddings, dataset, rows) ==
    LET similarity == SimilarityColumn(dataset, query_embeddings)
    IN  {[similarity |-> similarity, index |-> head(p, rows)] :
            p \in sort_values_desc(MaskRows(similarity), similarity)}

(***************************************************************************)
(* Retrieval of the RAG template.                                          *)
(***************************************************************************)
\* sklearn's normalize: a row divided by its l2 norm, a zero norm taken as 1.
sk_normalize(v) ==
    LET nrm == np_linalg_norm(v)
        d == IF IsZero(nrm) THEN Fin(One) ELSE nrm
    IN  [i \in 1..Len(v) |-> FDiv(v[i], d)]

\* sklearn.metrics.pairwise.cosine_similarity of one row against another: the
\* dot product of the normalized rows.
sk_cosine_similarity(x, y) == np_dot(sk_normalize(x), sk_normalize(y))

\* sims = cosine_similarity(query_embedding, embeddings)[0].
Sims(query_embedding, embeddings) ==
    [i \in 1..Len(embeddings) |-> sk_cosine_similarity(query_embedding, embeddings[i])]

\* sims.argsort() with the default quicksort, which is not stable: every
\* order of the indices that is non-decreasing in sims (NaN last).
argsort(sims) ==
    {p \in Arrangements(1..Len(sims)) :
        \A i \in 1..(Len(p) - 1) : SortsLeq(sims[p[i]], sims[p[i + 1]])}

\* top_indices = sims.argsort()[-TOP_K_RESULTS:][::-1]: the possible results.
TopIndices(sims) == {Reversed(LastN(p, TOP_K_RESULTS)) : p \in argsort(sims)}

\* retrieve_context: the possible results, each the similarities computed and
\* the sequence of the indices of the chunks joined into the context.
retrieve_context(query_embedding, embeddings) ==
    LET sims == Sims(query_embedding, embeddings)
    IN  {[sims |-> sims, top_indices |-> t] : t \in TopIndices(sims)}

(***************************************************************************)
(* Chunking of the RAG template.  A text is a sequence of characters.      *)
(***************************************************************************)
\* range(start, stop, step) for step >= 1.
RECURSIVE py_range(_, _, _)
py_range(start, stop, step) ==
    IF start >= stop THEN <<>> ELSE <<start>> \o py_range(start + step, stop, step)

\* s[i:j] for 0 <= i <= j, the end clamped to the length.
Slice(s, i, j) == SubSeq(s, i + 1, Min(j, Len(s)))

\* Chunks one character too long: text[i:i+chunk_size+1].
load_and_chunk_overlapping(text, chunk_size) ==
    LET starts == py_range(0, Len(text), chunk_size)
    IN  [k \in 1..Len(starts) |-> Slice(text, starts[k], starts[k] + chunk_size + 1)]

\* [text[i:i+chunk_size] for i in range(0, len(text), chunk_size)]
load_and_chunk_knowledge_base(text, chunk_size) ==
    LET starts == py_range(0, Len(text), chunk_size)
    IN  [k \in 1..Len(starts) |-> Slice(text, starts[k], starts[k] + chunk_size)]

(***************************************************************************)
(* Inputs.                                                                 *)
(***************************************************************************)
\* The values at the edges of the format: 0, the smallest subnormal, 1.0,
\* -1.0 and the largest finite value.
Probe == {Fin(0), Fin(1), Fin(One), Fin(-One), Fin(MaxFin)}

\* The vectors of length d over the edge values.
ProbeVectors(d) == [1..d -> Probe]

\* The vector w with x in place p.
WithAt(w, p, x) == [i \in DOMAIN w |-> IF i = p THEN x ELSE w[i]]

\* The vectors of the ranked datasets, by their two coordinates in halves.
Vec2(x, y) == <<Fin(x * (One \div 2)), Fin(y * (One \div 2))>>
RankVecs == {Vec2(0, 0), Vec2(0, 2), Vec2(2, 2), Vec2(2, 1), Vec2(2, 0)}
RankQueries == {Vec2(2, 0), Vec2(0, 0)}

\* The sequences over S of length lo..hi.
SeqsOf(S, lo, hi) == UNION {[1..n -> S] : n \in lo..hi}

Alphabet == {"x", "y"}

None == [k |-> "none", n |-> 0]

VARIABLES
    pc,               \* where the run is
    vec_a, vec_b,     \* the arguments a, b of cosine_similarity
    similarity,       \* its result
    text,             \* the text read from the knowledge base file
    chunk_size,       \* the parameter chunk_size
    chunks,           \* the chunks returned
    routine,          \* the retrieval routine applied: "search" or "rag"
    dataset,          \* get_similar_videos: the ada_v2 column of the dataset
    embeddings,       \* retrieve_context: the embeddings of the chunks
    query_embedding,  \* the embedding of the query
    rows,             \* get_similar_videos: the parameter rows
    scores,           \* the similarity of every row (the column "similarity")
                      \* or chunk (sims) to the query
    video_vectors,    \* get_similar_videos: the rows returned
    top_indices,      \* retrieve_context: the indices of the chunks returned
    tmpl,             \* the template whose app.py runs
    env,              \* the environment: variable name -> "unset", "empty", "set"
    store,            \* semantic-kernel-rag: whether ./chroma_db already holds
                      \* the collection
    built,            \* the clients, models and data built or loaded so far
    turns,            \* the number of passes through the loop so far
    user_input,       \* the line read by the last input()
    printed,          \* what the last step printed
    calls,            \* the external requests the last step made
    raised,           \* where the last step raised: "none", "input", "body"
    excepted,         \* whether any step of the run has raised
    messages,         \* function-calling: the conversation history of the
                      \* running main()
    pending,          \* function-calling: the ids of the tool calls of the
                      \* response not executed yet
    frames,           \* function-calling: the suspended calls of main(), the
                      \* outermost first
    results,          \* semantic-kernel-rag: the texts memory.search_async gave
    tool_call_request,  \* basic-agent: what reason_and_get_tool_call returned
    tool_output,      \* basic-agent: the tool output of the pass
    run,              \* semantic-kernel-rag: the number of the process run
    repo,             \* whether ./web-dev-for-beginners exists
    files,            \* the files os.walk finds under the lessons path
    collection,       \* the records of the collection in ./chroma_db
    written,          \* the saves made by this run's ingestion, in order
    queue,            \* the saves this run's ingestion has still to make
    inflight          \* the asynchronous operations started and not completed

cosVars == <<vec_a, vec_b, similarity>>
chunkVars == <<text, chunk_size, chunks>>
rankVars == <<routine, dataset, embeddings, query_embedding, rows, scores,
              video_vectors, top_indices>>
tmplVars == <<tmpl, env, store, built, turns, user_input, printed, calls, raised,
              excepted, messages, pending, frames, results, tool_call_request,
              tool_output>>
agentVars == <<tool_call_request, tool_output>>
kernelVars == <<run, repo, files, collection, written, queue, inflight>>
vars == <<pc, cosVars, chunkVars, rankVars, tmplVars, kernelVars>>

NoCos == vec_a = <<>> /\ vec_b = <<>> /\ similarity = None
NoChunk == text = <<>> /\ chunk_size = 0 /\ chunks = <<>>
NoRank ==
    /\ routine = "none"
    /\ dataset = <<>>
    /\ embeddings = <<>>
    /\ query_embedding = <<>>
    /\ rows = 0
    /\ scores = <<>>
    /\ video_vectors = <<>>
    /\ top_indices = <<>>
NoTemplate ==
    /\ tmpl = "none"
    /\ env = <<>>
    /\ store = FALSE
    /\ built = {}
    /\ turns = 0
    /\ user_input = <<>>
    /\ printed = <<>>
    /\ calls = <<>>
    /\ raised = "none"
    /\ excepted = FALSE
    /\ messages = <<>>
    /\ pending = <<>>
    /\ frames = <<>>
    /\ results = <<>>
    /\ tool_call_request = [kind |-> "none", name |-> "", arguments |-> ""]
    /\ tool_output = "none"
NoKernel ==
    /\ run = 0
    /\ repo = FALSE
    /\ files = <<>>
    /\ collection = {}
    /\ written = <<>>
    /\ queue = <<>>
    /\ inflight = <<>>

(***************************************************************************)
(* SpecCos: cosine_similarity applied to a pair of vectors.                *)
(***************************************************************************)
\* The pairs cosine_similarity is applied to: a vector with itself, any
\* value of the format in one place and edge values in the others; and two
\* vectors of one length over the edge values.
InitCos ==
    /\ pc = "cos_call"
    /\ \E d \in 1..MaxDim :
          \/ \E p \in 1..d, x \in Floats, w \in ProbeVectors(d) :
                /\ vec_a = WithAt(w, p, x)
                /\ vec_b = vec_a
          \/ /\ vec_a \in ProbeVectors(d)
             /\ vec_b \in ProbeVectors(d)
    /\ similarity = None
    /\ NoChunk
    /\ NoRank
    /\ NoTemplate
    /\ NoKernel

CosineSimilarity ==
    /\ pc = "cos_call"
    /\ similarity' = cosine_similarity(vec_a, vec_b)
    /\ pc' = "cos_done"
    /\ UNCHANGED <<vec_a, vec_b, chunkVars, rankVars, tmplVars, kernelVars>>

NextCos == CosineSimilarity

SpecCos == InitCos /\ [][NextCos]_vars

(***************************************************************************)
(* SpecChunk: load_and_chunk_knowledge_base applied to a text.             *)
(***************************************************************************)
InitChunk ==
    /\ pc = "chunk_call"
    /\ text \in SeqsOf(Alphabet, 0, MaxTextLen)
    /\ chunk_size \in 1..MaxChunkSize
    /\ chunks = <<>>
    /\ NoCos
    /\ NoRank
    /\ NoTemplate
    /\ NoKernel

LoadAndChunk ==
    /\ pc = "chunk_call"
    /\ chunks' = load_and_chunk_knowledge_base(text, chunk_size)
    /\ pc' = "chunk_done"
    /\ UNCHANGED <<text, chunk_size, cosVars, rankVars, tmplVars, kernelVars>>

NextChunk == LoadAndChunk

SpecChunk == InitChunk /\ [][NextChunk]_vars

(***************************************************************************)
(* SpecRank: get_similar_videos applied to a dataset, retrieve_context to  *)
(* the embeddings of a knowledge base.                                     *)
(***************************************************************************)
InitRank ==
    /\ pc = "rank_call"
    /\ query_embedding \in RankQueries
    /\ \/ /\ routine = "search"
          /\ dataset \in SeqsOf(RankVecs, 0, MaxRows)
          /\ rows \in (0..(MaxRows - 2)) \cup {DefaultRows}
          /\ embeddings = <<>>
       \/ /\ routine = "rag"
          /\ embeddings \in SeqsOf(RankVecs, 1, MaxRows)
          /\ rows = 0
          /\ dataset = <<>>
    /\ scores = <<>>
    /\ video_vectors = <<>>
    /\ top_indices = <<>>
    /\ NoCos
    /\ NoChunk
    /\ NoTemplate
    /\ NoKernel

GetSimilarVideos ==
    /\ pc = "rank_call"
    /\ routine = "search"
    /\ \E videos \in get_similar_videos(query_embedding, dataset, rows) :
          /\ scores' = videos.similarity
          /\ video_vectors' = videos.index
    /\ pc' = "rank_done"
    /\ UNCHANGED <<routine, dataset, embeddings, query_embedding, rows, top_indices,
                   cosVars, chunkVars, tmplVars, kernelVars>>

RetrieveContext ==
    /\ pc = "rank_call"
    /\ routine = "rag"
    /\ \E context \in retrieve_context(query_embedding, embeddings) :
          /\ scores' = context.sims
          /\ top_indices' = context.top_indices
    /\ pc' = "rank_done"
    /\ UNCHANGED <<routine, dataset, embeddings, query_embedding, rows, video_vectors,
                   cosVars, chunkVars, tmplVars, kernelVars>>

NextRank == GetSimilarVideos \/ RetrieveContext

SpecRank == InitRank /\ [][NextRank]_vars

(***************************************************************************)
(* Properties of the retrieval routines (SpecRank).                        *)
(***************************************************************************)
RankDone == pc = "rank_done"
SearchDone == RankDone /\ routine = "search"
RagDone == RankDone /\ routine = "rag"

\* The result of the routine applied, the inputs the routine may return and
\* the most it returns.
Result == IF routine = "search" THEN video_vectors ELSE top_indices
Eligible(i) == routine = "rag" \/ FGe(scores[i], SIMILARITIES_RESULTS_THRESHOLD)
Limit == IF routine = "search" THEN rows ELSE TOP_K_RESULTS

Returned == {Result[i] : i \in 1..Len(Result)}
PosOf(x) == CHOOSE i \in 1..Len(Result) : Result[i] = x
FGt(x, y) == FGe(x, y) /\ ~FGe(y, x)
SameScore(x, y) == FGe(x, y) /\ FGe(y, x)
\* The result names inputs, each at most once.
WellFormedResult ==
    /\ Returned \subseteq DOMAIN scores
    /\ Cardinality(Returned) = Len(Result)

\* C1: get_similar_videos returns rows in non-increasing similarity order, at
\* most `rows` of them, each with a similarity at or above
\* SIMILARITIES_RESULTS_THRESHOLD, and no row left out that passes the
\* threshold has a strictly higher similarity than a returned row.
C1_SearchRanksTopRows ==
    SearchDone =>
        /\ WellFormedResult
        /\ \A i \in 1..(Len(video_vectors) - 1) :
              FGe(scores[video_vectors[i]], scores[video_vectors[i + 1]])
        /\ Len(video_vectors) <= rows
        /\ \A x \in Returned : FGe(scores[x], SIMILARITIES_RESULTS_THRESHOLD)
        /\ \A j \in DOMAIN scores \ Returned :
              FGe(scores[j], SIMILARITIES_RESULTS_THRESHOLD)
                  => \A x \in Returned : ~FGt(scores[j], scores[x])

\* C1's case: more rows pass the threshold than are asked for, a row fails
\* it, and the rows returned differ in similarity.
C1_Witness ==
    /\ SearchDone
    /\ rows >= 2
    /\ Len(video_vectors) = rows
    /\ \E j \in DOMAIN scores \ Returned : Eligible(j)
    /\ \E j \in DOMAIN scores : ~Eligible(j)
    /\ FGt(scores[video_vectors[1]], scores[video_vectors[rows]])

\* C2 as claimed: in both routines only inputs at or above the threshold are
\* returned, at most K of them.
C2_Original ==
    RankDone =>
        /\ Len(Result) <= Limit
        /\ \A x \in Returned : FGe(scores[x], SIMILARITIES_RESULTS_THRESHOLD)

\* C2, amended: get_similar_videos returns only rows at or above the
\* threshold, at most `rows` of them; retrieve_context applies no threshold
\* and returns min(TOP_K_RESULTS, number of chunks) chunks whatever their
\* similarity.
C2_ThresholdInSearchOnly ==
    /\ SearchDone =>
          /\ Len(video_vectors) <= rows
          /\ \A x \in Returned : FGe(scores[x], SIMILARITIES_RESULTS_THRESHOLD)
    /\ RagDone =>
          /\ WellFormedResult
          /\ Len(top_indices) = Min(TOP_K_RESULTS, Len(embeddings))

\* C2's case: retrieve_context has cut the chunks at K and returned a chunk
\* whose similarity is below 0.75.
C2_Witness ==
    /\ RagDone
    /\ Len(embeddings) > TOP_K_RESULTS
    /\ \E x \in Returned : ~FGe(scores[x], SIMILARITIES_RESULTS_THRESHOLD)

\* C3 as claimed: inputs of equal similarity are returned in input order, and
\* the earlier ones are the ones kept at the cut.
C3_Original ==
    RankDone =>
        \A i, j \in DOMAIN scores :
            (i < j /\ Eligible(i) /\ Eligible(j) /\ SameScore(scores[i], scores[j]))
                => /\ j \in Returned => i \in Returned
                   /\ (i \in Returned /\ j \in Returned) => PosOf(i) < PosOf(j)

\* C3, amended: inputs of equal similarity are returned next to one another in
\* no fixed order, and when the cut falls inside a group of ties the input
\* order does not decide which are kept: only entries of that last group are
\* left out, and only when the result is full.
C3_TiesCutByCountOnly ==
    RankDone =>
        \A i, j \in DOMAIN scores :
            (i # j /\ Eligible(j) /\ i \in Returned /\ SameScore(scores[i], scores[j]))
                => /\ j \notin Returned =>
                        /\ Len(Result) = Limit
                        /\ \A x \in Returned : FGe(scores[x], scores[i])
                   /\ j \in Returned =>
                        \A q \in 1..Len(Result) :
                            ((PosOf(i) < q /\ q < PosOf(j))
                                => SameScore(scores[Result[q]], scores[i]))

\* C3's case: of two chunks of equal similarity the later one is returned and
\* the earlier one is cut.
C3_Witness ==
    /\ RankDone
    /\ \E i, j \in DOMAIN scores :
          /\ i < j
          /\ SameScore(scores[i], scores[j])
          /\ Eligible(i)
          /\ j \in Returned
          /\ i \notin Returned

(***************************************************************************)
(* Properties of the chunking (SpecChunk).                                 *)
(***************************************************************************)
RECURSIVE Concat(_)
Concat(ss) == IF ss = <<>> THEN <<>> ELSE Head(ss) \o Concat(Tail(ss))

CeilDiv(i, j) == (i + j - 1) \div j

\* C4: a text of length L and a chunk size C >= 1 give ceil(L/C) chunks, all
\* but the last of length C, the last of length 1..C, and the chunks
\* concatenated in order are the text.
C4_ChunksPartitionText ==
    pc = "chunk_done" =>
        /\ Len(chunks) = CeilDiv(Len(text), chunk_size)
        /\ \A k \in 1..(Len(chunks) - 1) : Len(chunks[k]) = chunk_size
        /\ chunks # <<>> =>
              (Len(chunks[Len(chunks)]) >= 1 /\ Len(chunks[Len(chunks)]) <= chunk_size)
        /\ Concat(chunks) = text

\* C4's case: several chunks, the last one shorter.
C4_Witness ==
    /\ pc = "chunk_done"
    /\ Len(chunks) >= 2
    /\ Len(chunks[Len(chunks)]) < chunk_size

(***************************************************************************)
(* Properties of cosine_similarity (SpecCos).                              *)
(***************************************************************************)
CosDone == pc = "cos_done"
NonZeroVector(v) == \E i \in DOMAIN v : ~IsZero(v[i])
\* The sum of the products a[i] * b[i] without rounding, in quanta squared.
RECURSIVE ExactDot(_, _, _)
ExactDot(x, y, i) == IF i = 0 THEN 0 ELSE ExactDot(x, y, i - 1) + x[i].n * y[i].n
\* x is 1.0 within two units in the last place of 1.0.
IsOneWithinTolerance(x) == IsFin(x) /\ Abs(x.n - One) <= 2 * Ulp(One)
PassesThreshold(x) == FGe(x, SIMILARITIES_RESULTS_THRESHOLD)

\* C9 as claimed: cosine_similarity(v, v) is 1.0 within tolerance for every
\* non-zero vector v.
C9_Original ==
    (CosDone /\ vec_a = vec_b /\ NonZeroVector(vec_a)) => IsOneWithinTolerance(similarity)

\* C9, amended: cosine_similarity(v, v) is 1.0 within tolerance for every
\* vector v whose squared norm np.dot(v, v) is a non-zero finite number, that
\* is, neither underflows to 0 nor overflows to infinity.
C9_SelfSimilarityIsOne ==
    (CosDone /\ vec_a = vec_b /\ IsFin(np_dot(vec_a, vec_a)) /\ ~IsZero(np_dot(vec_a, vec_a)))
        => IsOneWithinTolerance(similarity)

\* C9's case: a vector of two non-zero components whose similarity to itself
\* is rounded, and is not exactly 1.0.
C9_Witness ==
    /\ CosDone
    /\ vec_a = vec_b
    /\ Len(vec_a) = 2
    /\ \A i \in 1..2 : ~IsZero(vec_a[i])
    /\ IsFin(similarity)
    /\ similarity # Fin(One)

\* C10 as claimed: for non-zero vectors of one length whose dot product is
\* zero, cosine_similarity is 0.0 (and so does not pass the threshold).
C10_Original ==
    (/\ CosDone
     /\ NonZeroVector(vec_a)
     /\ NonZeroVector(vec_b)
     /\ ExactDot(vec_a, vec_b, Len(vec_a)) = 0
     /\ np_dot(vec_a, vec_b) = Zero)
        => similarity = Zero

\* C10, amended: for non-zero vectors of one length whose dot product is zero,
\* cosine_similarity is 0.0 when the product of the two norms is a non-zero
\* number and NaN when that product underflows to 0 or is NaN; in both cases
\* the row does not pass the 0.75 threshold.
C10_OrthogonalNeverPasses ==
    (/\ CosDone
     /\ NonZeroVector(vec_a)
     /\ NonZeroVector(vec_b)
     /\ np_dot(vec_a, vec_b) = Zero)
        => LET normprod == FMul(np_linalg_norm(vec_a), np_linalg_norm(vec_b))
           IN  /\ (IsNaN(normprod) \/ IsZero(normprod)) => IsNaN(similarity)
               /\ ~(IsNaN(normprod) \/ IsZero(normprod)) => similarity = Zero
               /\ ~PassesThreshold(similarity)

\* C10's case: two orthogonal vectors of two components with a similarity of
\* exactly 0.0.
C10_Witness ==
    /\ CosDone
    /\ Len(vec_a) = 2
    /\ NonZeroVector(vec_a)
    /\ NonZeroVector(vec_b)
    /\ ExactDot(vec_a, vec_b, 2) = 0
    /\ similarity = Zero

(***************************************************************************)
(* Spec: the interactive templates.  One run of one template's app.py:     *)
(* main() up to the first prompt, then one pass of its `while True` loop   *)
(* per line read from the console.                                         *)
(***************************************************************************)
MaxTurns == 2       \* lines read from the console in one run
MaxIndexRows == 2   \* rows of the embeddings index the search template loads
MaxToolCalls == 2   \* tool calls in one response of the chat model
MaxDepth == 1       \* calls of main() suspended in a tool call

SearchLimit == 3
DefaultChunkSize == 500

Templates ==
    {"basic-chat", "huggingface-inference", "semantic-search", "rag-chat",
     "function-calling", "basic-agent", "semantic-kernel-rag", "agent-lite"}

\* The environment variables each template reads.
EnvVars(t) ==
    CASE t = "basic-chat" ->
            {"AZURE_OPENAI_API_KEY", "AZURE_OPENAI_ENDPOINT", "AZURE_OPENAI_DEPLOYMENT"}
      [] t = "huggingface-inference" -> {"HUGGINGFACE_API_KEY"}
      [] t = "semantic-search" ->
            {"AZURE_OPENAI_API_KEY", "AZURE_OPENAI_ENDPOINT",
             "AZURE_OPENAI_EMBEDDINGS_DEPLOYMENT"}
      [] t = "rag-chat" ->
            {"AZURE_OPENAI_API_KEY", "AZURE_OPENAI_ENDPOINT",
             "AZURE_OPENAI_EMBEDDINGS_DEPLOYMENT", "AZURE_OPENAI_CHAT_DEPLOYMENT"}
      [] t \in {"function-calling", "basic-agent"} ->
            {"AZURE_OPENAI_API_KEY", "AZURE_OPENAI_ENDPOINT",
             "AZURE_OPENAI_CHAT_DEPLOYMENT"}
      [] t = "semantic-kernel-rag" ->
            {"USE_AZURE_OPENAI", "OPENAI_API_KEY", "AZURE_OPENAI_DEPLOYMENT_NAME",
             "AZURE_OPENAI_API_KEY", "AZURE_OPENAI_ENDPOINT"}
      [] t = "agent-lite" -> {"OPENAI_API_KEY"}

\* A variable is unset (os.getenv gives None), set to "" or set to a value;
\* for USE_AZURE_OPENAI the value is "true".
EnvValues == {"unset", "empty", "set"}

\* The settings of a template's variables a run starts under: all of them,
\* but for the five variables of the semantic-kernel-rag template those in
\* which at most one variable is not set, and the one in which none is.
Environments(t) ==
    IF t = "semantic-kernel-rag"
    THEN {e \in [EnvVars(t) -> EnvValues] :
             \/ Cardinality({v \in EnvVars(t) : e[v] # "set"}) <= 1
             \/ \A v \in EnvVars(t) : e[v] = "unset"}
    ELSE [EnvVars(t) -> EnvValues]

os_getenv(name) == env[name]

\* Python's truth of what os.getenv gave: None and "" are false.
Truthy(value) == value = "set"

py_all(values) == \A i \in DOMAIN values : Truthy(values[i])

\* str.lower() on the letters the console lines are written with.
LowerChar(c) ==
    CASE c = "E" -> "e"
      [] c = "X" -> "x"
      [] c = "I" -> "i"
      [] c = "T" -> "t"
      [] OTHER -> c

str_lower(s) == [i \in DOMAIN s |-> LowerChar(s[i])]

\* The lines typed at the prompt: exit in three spellings, exit after a
\* blank, and a request.
Lines ==
    {<<"e", "x", "i", "t">>, <<"E", "X", "I", "T">>, <<"E", "x", "i", "t">>,
     <<" ", "e", "x", "i", "t">>, <<"h", "i">>}

\* user_prompt.lower() == 'exit'
IsExitCommand(line) == str_lower(line) = <<"e", "x", "i", "t">>

\* What a step leaves behind: where the run goes on, what was printed, the
\* external requests made, and where an exception was raised.
Outcome(next_pc, out, made, exc) ==
    /\ pc' = next_pc
    /\ printed' = out
    /\ calls' = made
    /\ raised' = exc
    /\ excepted' = (excepted \/ exc # "none")

pureVars == <<cosVars, chunkVars, rankVars>>
fcVars == <<messages, pending, frames>>

(***************************************************************************)
(* basic-chat-app                                                          *)
(***************************************************************************)
BasicChatStart ==
    /\ pc = "start"
    /\ tmpl = "basic-chat"
    /\ IF ~py_all(<<os_getenv("AZURE_OPENAI_API_KEY"),
                    os_getenv("AZURE_OPENAI_ENDPOINT"),
                    os_getenv("AZURE_OPENAI_DEPLOYMENT")>>)
       THEN /\ built' = built
            /\ Outcome("done", <<"config_error">>, <<>>, "none")
       ELSE \/ /\ built' = built                       \* AzureOpenAI(...) raises
               /\ Outcome("done", <<"client_error">>, <<>>, "startup")
            \/ /\ built' = built \cup {"client"}
               /\ Outcome("prompt", <<"ready">>, <<>>, "none")
    /\ UNCHANGED <<kernelVars, agentVars,
                   tmpl, env, store, turns, user_input, results, fcVars, pureVars>>

\* One pass of the loop: input() and all that follows are inside the try,
\* and the handler breaks.
BasicChatTurn ==
    /\ pc = "prompt"
    /\ tmpl = "basic-chat"
    /\ turns < MaxTurns
    /\ turns' = turns + 1
    /\ \/ /\ user_input' = <<>>                        \* input() raises EOFError
          /\ Outcome("done", <<"error">>, <<>>, "input")
       \/ \E line \in Lines :
             /\ user_input' = line
             /\ IF IsExitCommand(line)
                THEN Outcome("done", <<"goodbye">>, <<>>, "none")
                ELSE \/ Outcome("done", <<"error">>, <<"chat">>, "body")
                     \/ \E choices \in {0, 1} :
                           Outcome("prompt",
                                   IF choices # 0 THEN <<"answer">> ELSE <<"no_response">>,
                                   <<"chat">>, "none")
    /\ UNCHANGED <<kernelVars, agentVars,
                   tmpl, env, store, built, results, fcVars, pureVars>>

(***************************************************************************)
(* huggingface-inference-app                                               *)
(***************************************************************************)
HuggingFaceStart ==
    /\ pc = "start"
    /\ tmpl = "huggingface-inference"
    /\ IF ~Truthy(os_getenv("HUGGINGFACE_API_KEY"))
       THEN /\ built' = built
            /\ Outcome("done", <<"config_error">>, <<>>, "none")
       ELSE \/ /\ built' = built                       \* login(...) raises
               /\ Outcome("done", <<"auth_failed">>, <<"login">>, "startup")
            \/ /\ built' = built \cup {"login"}        \* pipeline(...) raises
               /\ Outcome("done", <<"auth_ok", "model_error">>, <<"login">>, "startup")
            \/ /\ built' = built \cup {"login", "model"}
               /\ Outcome("prompt", <<"auth_ok", "ready">>, <<"login">>, "none")
    /\ UNCHANGED <<kernelVars, agentVars,
                   tmpl, env, store, turns, user_input, results, fcVars, pureVars>>

\* One pass of the loop: there is no try in it.
HuggingFaceTurn ==
    /\ pc = "prompt"
    /\ tmpl = "huggingface-inference"
    /\ turns < MaxTurns
    /\ turns' = turns + 1
    /\ \/ /\ user_input' = <<>>                        \* input() raises EOFError
          /\ Outcome("crashed", <<>>, <<>>, "input")
       \/ \E line \in Lines :
             /\ user_input' = line
             /\ IF IsExitCommand(line)
                THEN Outcome("done", <<"goodbye">>, <<>>, "none")
                ELSE \/ Outcome("crashed", <<"generating">>, <<"generate">>, "body")
                     \/ Outcome("prompt", <<"generating", "answer">>, <<"generate">>, "none")
    /\ UNCHANGED <<kernelVars, agentVars,
                   tmpl, env, store, built, results, fcVars, pureVars>>

(***************************************************************************)
(* semantic-search-app                                                     *)
(***************************************************************************)
\* What display_results prints for the rows it is given: the no-videos
\* message, or a heading and then an entry for every row.  (The index is taken to hold
\* the columns the script reads.)
display_results_unguarded(videos) ==
    <<"videos">> \o [i \in DOMAIN videos |-> "video"]

display_results(videos) ==
    IF videos = <<>> THEN <<"no_videos">>
    ELSE <<"videos">> \o [i \in DOMAIN videos |-> "video"]

SemanticSearchStart ==
    /\ pc = "start"
    /\ tmpl = "semantic-search"
    /\ IF ~py_all(<<os_getenv("AZURE_OPENAI_API_KEY"),
                    os_getenv("AZURE_OPENAI_ENDPOINT"),
                    os_getenv("AZURE_OPENAI_EMBEDDINGS_DEPLOYMENT")>>)
       THEN /\ built' = built
            /\ dataset' = dataset
            /\ Outcome("done", <<"config_error">>, <<>>, "none")
       ELSE \/ /\ built' = built                       \* AzureOpenAI(...) raises
               /\ dataset' = dataset
               /\ Outcome("done", <<"client_error">>, <<>>, "startup")
            \/ /\ built' = built \cup {"client"}       \* the file is missing
               /\ dataset' = dataset
               /\ Outcome("done", <<"client_ok", "file_not_found">>, <<>>, "startup")
            \/ /\ built' = built \cup {"client"}       \* read_json raises
               /\ dataset' = dataset
               /\ Outcome("crashed", <<"client_ok">>, <<>>, "startup")
            \/ /\ built' = built \cup {"client", "dataset"}
               /\ dataset' \in SeqsOf(RankVecs, 0, MaxIndexRows)
               /\ Outcome("prompt", <<"client_ok", "ready">>, <<>>, "none")
    /\ UNCHANGED <<kernelVars, agentVars,
                   tmpl, env, store, turns, user_input, results, fcVars, cosVars,
                   chunkVars, routine, embeddings, query_embedding, rows, scores,
                   video_vectors, top_indices>>

\* One pass of the loop: input() and the exit test are outside the try,
\* get_similar_videos and display_results inside it.
SemanticSearchTurn ==
    /\ pc = "prompt"
    /\ tmpl = "semantic-search"
    /\ turns < MaxTurns
    /\ turns' = turns + 1
    /\ \/ /\ user_input' = <<>>                        \* input() raises EOFError
          /\ Outcome("crashed", <<>>, <<>>, "input")
          /\ UNCHANGED <<query_embedding, scores, video_vectors>>
       \/ \E line \in Lines :
             /\ user_input' = line
             /\ IF IsExitCommand(line)
                THEN /\ Outcome("done", <<"goodbye">>, <<>>, "none")
                     /\ UNCHANGED <<query_embedding, scores, video_vectors>>
                ELSE \/ /\ Outcome("prompt", <<"error">>, <<"embeddings">>, "body")
                        /\ UNCHANGED <<query_embedding, scores, video_vectors>>
                     \/ \E query_embeddings \in RankQueries :
                        \E videos \in get_similar_videos(query_embeddings, dataset,
                                                         DefaultRows) :
                           /\ query_embedding' = query_embeddings
                           /\ scores' = videos.similarity
                           /\ video_vectors' = videos.index
                           /\ Outcome("prompt", display_results(videos.index),
                                      <<"embeddings">>, "none")
    /\ UNCHANGED <<kernelVars, agentVars,
                   tmpl, env, store, built, results, fcVars, cosVars, chunkVars,
                   routine, dataset, embeddings, rows, top_indices>>

(***************************************************************************)
(* rag-chat-app                                                            *)
(***************************************************************************)
\* The texts of data.md: empty, one character, and one and two characters
\* more than a whole number of chunks.
KnowledgeBaseLengths == {0, 1, DefaultChunkSize + 1, 2 * DefaultChunkSize + 1}
KnowledgeBases == {[i \in 1..n |-> "x"] : n \in KnowledgeBaseLengths}

\* The requests get_embeddings makes for a list of texts: one
\* client.embeddings.create for the whole list.
get_embeddings_request_per_text(texts) == [i \in DOMAIN texts |-> "embeddings"]

get_embeddings_requests(texts) == <<"embeddings">>

\* What get_embeddings can return for a list of texts: the array of the
\* embeddings of response.data, which holds one item per text, each a
\* vector of the deployment's dimension.
EmbeddingVecs == {Vec2(0, 0), Vec2(0, 2), Vec2(2, 0)}

get_embeddings_first_only(texts) == [(DOMAIN texts) \cap {1} -> EmbeddingVecs]

get_embeddings(texts) == [DOMAIN texts -> EmbeddingVecs]

\* The knowledge base is read and chunked, then get_embeddings is called
\* once for all the chunks.
RagChatStart ==
    /\ pc = "start"
    /\ tmpl = "rag-chat"
    /\ IF ~py_all(<<os_getenv("AZURE_OPENAI_API_KEY"),
                    os_getenv("AZURE_OPENAI_ENDPOINT"),
                    os_getenv("AZURE_OPENAI_EMBEDDINGS_DEPLOYMENT"),
                    os_getenv("AZURE_OPENAI_CHAT_DEPLOYMENT")>>)
       THEN /\ built' = built
            /\ UNCHANGED <<text, chunks, embeddings>>
            /\ Outcome("done", <<"config_error">>, <<>>, "none")
       ELSE \/ /\ built' = built                       \* AzureOpenAI(...) raises
               /\ UNCHANGED <<text, chunks, embeddings>>
               /\ Outcome("done", <<"client_error">>, <<>>, "startup")
            \/ /\ built' = built \cup {"client"}       \* the file is missing
               /\ UNCHANGED <<text, chunks, embeddings>>
               /\ Outcome("done", <<"client_ok", "file_not_found">>, <<>>, "startup")
            \/ \E kb \in KnowledgeBases :
                  LET text_chunks == load_and_chunk_knowledge_base(kb, DefaultChunkSize)
                  IN  /\ text' = kb
                      /\ chunks' = text_chunks
                      /\ \/ /\ built' = built \cup {"client", "knowledge_base"}
                            /\ embeddings' = embeddings    \* get_embeddings raises
                            /\ Outcome("done", <<"client_ok", "chunked", "kb_error">>,
                                       get_embeddings_requests(text_chunks), "startup")
                         \/ /\ built' = built \cup {"client", "knowledge_base",
                                                     "embeddings"}
                            /\ embeddings' \in get_embeddings(text_chunks)
                            /\ Outcome("prompt", <<"client_ok", "chunked", "ready">>,
                                       get_embeddings_requests(text_chunks), "none")
    /\ UNCHANGED <<kernelVars, agentVars,
                   tmpl, env, store, turns, user_input, results, fcVars, cosVars,
                   chunk_size, routine, dataset, query_embedding, rows, scores,
                   video_vectors, top_indices>>

\* One pass of the loop: input() and the exit test are outside the try,
\* retrieve_context and generate_response inside it.  With no embedding at
\* all, sklearn's cosine_similarity rejects the array.
RagChatTurn ==
    /\ pc = "prompt"
    /\ tmpl = "rag-chat"
    /\ turns < MaxTurns
    /\ turns' = turns + 1
    /\ \/ /\ user_input' = <<>>                        \* input() raises EOFError
          /\ Outcome("crashed", <<>>, <<>>, "input")
          /\ UNCHANGED <<query_embedding, scores, top_indices>>
       \/ \E line \in Lines :
             /\ user_input' = line
             /\ IF IsExitCommand(line)
                THEN /\ Outcome("done", <<"goodbye">>, <<>>, "none")
                     /\ UNCHANGED <<query_embedding, scores, top_indices>>
                ELSE \/ /\ Outcome("prompt", <<"error">>,
                                   get_embeddings_requests(<<line>>), "body")
                        /\ UNCHANGED <<query_embedding, scores, top_indices>>
                     \/ \E q \in RankQueries :
                           /\ query_embedding' = q
                           /\ IF embeddings = <<>>
                              THEN /\ Outcome("prompt", <<"error">>,
                                              get_embeddings_requests(<<line>>), "body")
                                   /\ UNCHANGED <<scores, top_indices>>
                              ELSE \E context \in retrieve_context(q, embeddings) :
                                      /\ scores' = context.sims
                                      /\ top_indices' = context.top_indices
                                      /\ \/ Outcome("prompt", <<"error">>,
                                                    get_embeddings_requests(<<line>>)
                                                        \o <<"chat">>, "body")
                                         \/ Outcome("prompt", <<"answer">>,
                                                    get_embeddings_requests(<<line>>)
                                                        \o <<"chat">>, "none")
    /\ UNCHANGED <<kernelVars, agentVars,
                   tmpl, env, store, built, results, fcVars, cosVars, chunkVars,
                   routine, dataset, embeddings, rows, video_vectors>>

(***************************************************************************)
(* basic-agent-app                                                         *)
(***************************************************************************)
AVAILABLE_TOOLS == {"get_current_weather"}

\* What a tool call names and passes: a declared tool, the script's own
\* main, or a name defined nowhere; a city, no argument at all, or text that
\* is not JSON.
ToolNames == {"get_current_weather", "main", "get_time"}
ToolArguments == {"city", "empty", "invalid"}

\* A tool name that is JSON but no string: a list, which json.loads gives
\* as a Python list.
ListName == "['get_current_weather']"
AgentToolNames == ToolNames \cup {ListName}

\* What the reasoning request's text parses to: not JSON, {"tool_call":
\* null}, or a tool call.
NoRequest == [kind |-> "none", name |-> "", arguments |-> ""]
AgentReplies ==
    {[kind |-> k, name |-> "", arguments |-> ""] : k \in {"invalid", "null"}}
        \cup {[kind |-> "call", name |-> n, arguments |-> a] :
                 n \in AgentToolNames, a \in {"city", "empty"}}

\* AVAILABLE_TOOLS.get(tool_name): the function under the key, None when
\* there is no such key, and a TypeError for a key that cannot be hashed.
AVAILABLE_TOOLS_get(tool_name) ==
    IF tool_name = ListName THEN "raises"
    ELSE IF tool_name \in AVAILABLE_TOOLS THEN tool_name
    ELSE "None"

BasicAgentStart ==
    /\ pc = "start"
    /\ tmpl = "basic-agent"
    /\ IF ~py_all(<<os_getenv("AZURE_OPENAI_API_KEY"),
                    os_getenv("AZURE_OPENAI_ENDPOINT"),
                    os_getenv("AZURE_OPENAI_CHAT_DEPLOYMENT")>>)
       THEN /\ built' = built
            /\ Outcome("done", <<"config_error">>, <<>>, "none")
       ELSE \/ /\ built' = built                       \* AzureOpenAI(...) raises
               /\ Outcome("done", <<"client_error">>, <<>>, "startup")
            \/ /\ built' = built \cup {"client"}
               /\ Outcome("prompt", <<"client_ok", "ready">>, <<>>, "none")
    /\ UNCHANGED <<kernelVars, agentVars,
                   tmpl, env, store, turns, user_input, results, fcVars, pureVars>>

\* One pass of the loop: input() and the exit test are outside the try,
\* the reasoning request, the tool and the final request inside it.
BasicAgentTurn ==
    /\ pc = "prompt"
    /\ tmpl = "basic-agent"
    /\ turns < MaxTurns
    /\ turns' = turns + 1
    /\ \/ /\ user_input' = <<>>                        \* input() raises EOFError
          /\ tool_call_request' = NoRequest
          /\ tool_output' = "none"
          /\ Outcome("crashed", <<>>, <<>>, "input")
       \/ \E line \in Lines :
             /\ user_input' = line
             /\ IF IsExitCommand(line)
                THEN /\ tool_call_request' = NoRequest
                     /\ tool_output' = "none"
                     /\ Outcome("done", <<"goodbye">>, <<>>, "none")
                ELSE \/ /\ tool_call_request' = NoRequest
                        /\ tool_output' = "none"
                        /\ Outcome("prompt", <<"thinking", "error">>, <<"chat">>,
                                   "body")
                     \/ \E reply \in AgentReplies :
                           CASE reply.kind = "invalid" ->      \* json.loads raises
                                   /\ tool_call_request' = NoRequest
                                   /\ tool_output' = "none"
                                   /\ Outcome("prompt", <<"thinking", "error">>,
                                              <<"chat">>, "body")
                             [] reply.kind = "null" ->
                                   /\ tool_call_request' = reply
                                   /\ tool_output' = "none"
                                   /\ \/ Outcome("prompt",
                                                 <<"thinking", "no_tool", "error">>,
                                                 <<"chat", "chat">>, "body")
                                      \/ Outcome("prompt",
                                                 <<"thinking", "no_tool", "answer">>,
                                                 <<"chat", "chat">>, "none")
                             [] reply.kind = "call" ->
                                   LET tool_function == AVAILABLE_TOOLS_get(reply.name)
                                       out == <<"thinking", "using_tool">>
                                   IN  /\ tool_call_request' = reply
                                       /\ CASE tool_function = "raises" ->
                                                 /\ tool_output' = "none"
                                                 /\ Outcome("prompt", out \o <<"error">>,
                                                            <<"chat">>, "body")
                                             [] tool_function = "None" ->
                                                 /\ tool_output' = "not_found"
                                                 /\ \/ Outcome("prompt",
                                                               out \o <<"error">>,
                                                               <<"chat", "chat">>, "body")
                                                    \/ Outcome("prompt",
                                                               out \o <<"answer">>,
                                                               <<"chat", "chat">>, "none")
                                             [] OTHER ->
                                                 IF reply.arguments # "city"
                                                 THEN \* the tool called without city
                                                      /\ tool_output' = "none"
                                                      /\ Outcome("prompt",
                                                                 out \o <<"error">>,
                                                                 <<"chat">>, "body")
                                                 ELSE /\ tool_output' = "weather"
                                                      /\ \/ Outcome("prompt",
                                                                    out \o <<"tool_output",
                                                                             "error">>,
                                                                    <<"chat", "chat">>,
                                                                    "body")
                                                         \/ Outcome("prompt",
                                                                    out \o <<"tool_output",
                                                                             "answer">>,
                                                                    <<"chat", "chat">>,
                                                                    "none")
    /\ UNCHANGED <<kernelVars, tmpl, env, store, built, results, fcVars, pureVars>>

(***************************************************************************)
(* agent-lite-app                                                          *)
(***************************************************************************)
AgentLiteStart ==
    /\ pc = "start"
    /\ tmpl = "agent-lite"
    /\ IF ~Truthy(os_getenv("OPENAI_API_KEY"))
       THEN /\ built' = built
            /\ Outcome("done", <<"config_error">>, <<>>, "none")
       ELSE \/ /\ built' = built                       \* SearchAgent() raises
               /\ Outcome("crashed", <<"initializing">>, <<>>, "startup")
            \/ /\ built' = built \cup {"agent"}
               /\ Outcome("prompt", <<"initializing", "ready">>, <<>>, "none")
    /\ UNCHANGED <<kernelVars, agentVars,
                   tmpl, env, store, turns, user_input, results, fcVars, pureVars>>

\* One pass of the loop: input() and all that follows are inside the try,
\* and the handler goes on with the loop.
AgentLiteTurn ==
    /\ pc = "prompt"
    /\ tmpl = "agent-lite"
    /\ turns < MaxTurns
    /\ turns' = turns + 1
    /\ \/ /\ user_input' = <<>>                        \* input() raises EOFError
          /\ Outcome("prompt", <<"error">>, <<>>, "input")
       \/ \E line \in Lines :
             /\ user_input' = line
             /\ IF IsExitCommand(line)
                THEN Outcome("done", <<"goodbye">>, <<>>, "none")
                ELSE \/ Outcome("prompt", <<"error">>, <<"agent">>, "body")
                     \/ Outcome("prompt", <<"answer">>, <<"agent">>, "none")
    /\ UNCHANGED <<kernelVars, agentVars,
                   tmpl, env, store, built, results, fcVars, pureVars>>

(***************************************************************************)
(* semantic-kernel-rag-app                                                 *)
(***************************************************************************)
\* os.getenv("USE_AZURE_OPENAI", "False").lower() == 'true'
use_azure_openai == os_getenv("USE_AZURE_OPENAI") = "set"

\* "\n".join(texts)
join_lines(texts) ==
    LET RECURSIVE upto(_)
        upto(n) == IF n = 0 THEN <<>>
                   ELSE IF n = 1 THEN texts[1]
                   ELSE upto(n - 1) \o <<"\n">> \o texts[n]
    IN  upto(Len(texts))

\* The texts memory.search_async can give: at most `limit` of them, each a
\* chunk of a lesson (or an empty chunk).
SearchResults == SeqsOf({<<>>, <<"t">>}, 0, SearchLimit)

\* initialize_kernel_and_memory: the script tests no variable itself.  The
\* kernel is built, then the library reads the settings; that call either
\* raises (nothing handles it) or returns, and the services and the memory
\* store are built from what it gave.
SemanticKernelInitialize ==
    /\ pc = "start"
    /\ tmpl = "semantic-kernel-rag"
    /\ LET services == IF use_azure_openai THEN "azure_services"
                                           ELSE "openai_services"
       IN  \/ /\ built' = built \cup {"kernel"}       \* *_settings_from_dot_env raises
              /\ Outcome("crashed", <<"initializing">>, <<>>, "startup")
           \/ /\ built' = built \cup {"kernel", services}   \* ChromaMemoryStore raises
              /\ Outcome("crashed", <<"initializing">>, <<>>, "startup")
           \/ /\ built' = built \cup {"kernel", services, "memory"}
              /\ Outcome("ingest", <<"initializing", "initialized">>, <<>>, "none")
    /\ UNCHANGED <<kernelVars, agentVars,
                   tmpl, env, store, turns, user_input, results, fcVars, pureVars>>

\* ingest_data: skipped when the store already holds the collection (a
\* failing get_collections_async is printed and ingestion goes on); else
\* the repository is cloned and every chunk saved, and nothing handles an
\* exception of these.  Chunks saved before such an exception stay in the
\* store.
SemanticKernelIngest ==
    /\ pc = "ingest"
    /\ tmpl = "semantic-kernel-rag"
    /\ \/ /\ store
          /\ store' = store
          /\ built' = built
          /\ Outcome("prompt", <<"already_ingested", "ready">>, <<>>, "none")
       \/ \E check \in IF store THEN {"check_failed"} ELSE {"check_failed", "absent"} :
             LET out == IF check = "check_failed" THEN <<"check_failed", "cloning">>
                                                  ELSE <<"cloning">>
             IN  \/ /\ store' = store                  \* clone_from raises
                    /\ built' = built
                    /\ Outcome("crashed", out, <<"clone">>, "startup")
                 \/ /\ store' \in {store, TRUE}        \* save_information_async raises
                    /\ built' = built \cup {"repository"}
                    /\ Outcome("crashed", out \o <<"cloned", "processing">>,
                               <<"clone", "embeddings">>, "startup")
                 \/ /\ store' = TRUE
                    /\ built' = built \cup {"repository", "collection"}
                    /\ Outcome("prompt", out \o <<"cloned", "processing", "ingested", "ready">>,
                               <<"clone", "embeddings">>, "none")
    /\ UNCHANGED <<kernelVars, agentVars,
                   tmpl, env, turns, user_input, results, fcVars, pureVars>>

\* One pass of the loop: input() and all that follows are inside the try,
\* and the handler goes on with the loop.
SemanticKernelTurn ==
    /\ pc = "prompt"
    /\ tmpl = "semantic-kernel-rag"
    /\ turns < MaxTurns
    /\ turns' = turns + 1
    /\ \/ /\ user_input' = <<>>                        \* input() raises EOFError
          /\ results' = results
          /\ Outcome("prompt", <<"error">>, <<>>, "input")
       \/ \E line \in Lines :
             /\ user_input' = line
             /\ IF IsExitCommand(line)
                THEN /\ results' = results
                     /\ Outcome("done", <<"goodbye">>, <<>>, "none")
                ELSE \/ /\ results' = results           \* search_async raises
                        /\ Outcome("prompt", <<"searching", "error">>, <<"search">>, "body")
                     \/ \E found \in SearchResults :
                           /\ results' = found
                           /\ IF join_lines(found) = <<>>
                              THEN Outcome("prompt", <<"searching", "not_found">>,
                                           <<"search">>, "none")
                              ELSE \/ Outcome("prompt", <<"searching", "generating", "error">>,
                                              <<"search", "chat">>, "body")
                                   \/ Outcome("prompt", <<"searching", "generating", "answer">>,
                                              <<"search", "chat">>, "none")
    /\ UNCHANGED <<kernelVars, agentVars,
                   tmpl, env, store, built, fcVars, pureVars>>

(***************************************************************************)
(* function-calling-app                                                    *)
(***************************************************************************)
\* The names defined at module level that a call through globals() can
\* reach as a function of the script.
ModuleFunctions == {"get_current_weather", "main"}

\* globals().get(function_name)
globals_get(function_name) ==
    IF function_name \in ModuleFunctions THEN function_name ELSE "None"

\* What function_to_call(**json.loads(arguments)) does: json.loads raises
\* on text that is not JSON, None is not callable, get_current_weather
\* needs city, main takes no argument; main() with no argument runs the
\* script's main again.
call_result(function_name, arguments) ==
    LET function_to_call == globals_get(function_name)
    IN  IF arguments = "invalid" THEN "raises"
        ELSE IF function_to_call = "None" THEN "raises"
        ELSE IF function_to_call = "get_current_weather"
             THEN IF arguments = "city" THEN "returns" ELSE "raises"
        ELSE IF arguments = "empty" THEN "runs_main" ELSE "raises"

\* A message of the history.
Msg(role, tool_calls, tool_call_id) ==
    [role |-> role, tool_calls |-> tool_calls, tool_call_id |-> tool_call_id]

SystemMsg == Msg("system", <<>>, <<>>)
UserMsg == Msg("user", <<>>, <<>>)
AnswerMsg == Msg("assistant", <<>>, <<>>)
ToolMsg(tool_call_id) == Msg("tool", <<>>, tool_call_id)
ToolCallsMsg(tool_call_ids) == Msg("assistant", tool_call_ids, <<>>)

\* The ids of the tool calls a response can carry: one to MaxToolCalls of
\* them, the k-th of the response to the t-th line with the id <<t, k>>.
ToolCallIds(t) == {[k \in 1..n |-> <<t, k>>] : n \in 1..MaxToolCalls}

\* The name and the arguments a tool call can carry; they are drawn when the
\* loop over the tool calls reaches the call.
ToolCallKinds == ToolNames \X ToolArguments

FunctionCallingStart ==
    /\ pc = "start"
    /\ tmpl = "function-calling"
    /\ IF ~py_all(<<os_getenv("AZURE_OPENAI_API_KEY"),
                    os_getenv("AZURE_OPENAI_ENDPOINT"),
                    os_getenv("AZURE_OPENAI_CHAT_DEPLOYMENT")>>)
       THEN /\ built' = built
            /\ messages' = messages
            /\ Outcome("done", <<"config_error">>, <<>>, "none")
       ELSE \/ /\ built' = built                       \* AzureOpenAI(...) raises
               /\ messages' = messages
               /\ Outcome("crashed", <<>>, <<>>, "startup")
            \/ /\ built' = built \cup {"client"}
               /\ messages' = <<SystemMsg>>
               /\ Outcome("prompt", <<"client_ok", "ready">>, <<>>, "none")
    /\ UNCHANGED <<kernelVars, agentVars,
                   tmpl, env, store, turns, user_input, results, pending, frames,
                   pureVars>>

\* The start of one pass of the loop, up to the first response: input() and
\* the exit test, then messages.append of the request, are outside the try.
\* When this main() runs inside a tool call of an outer main(), its return
\* gives that call the response None and an EOFError of its input() is
\* raised in the outer try.
FunctionCallingPrompt ==
    /\ pc = "prompt"
    /\ tmpl = "function-calling"
    /\ turns < MaxTurns
    /\ turns' = turns + 1
    /\ \/ /\ user_input' = <<>>                        \* input() raises EOFError
          /\ IF frames = <<>>
             THEN /\ UNCHANGED fcVars
                  /\ Outcome("crashed", <<>>, <<>>, "input")
             ELSE /\ messages' = frames[Len(frames)].messages
                  /\ pending' = <<>>
                  /\ frames' = SubSeq(frames, 1, Len(frames) - 1)
                  /\ Outcome("prompt", <<"error">>, <<>>, "input")
       \/ \E line \in Lines :
             /\ user_input' = line
             /\ IF IsExitCommand(line)
                THEN IF frames = <<>>
                     THEN /\ UNCHANGED fcVars
                          /\ Outcome("done", <<"goodbye">>, <<>>, "none")
                     ELSE LET outer == frames[Len(frames)]
                          IN  /\ messages' = Append(outer.messages, ToolMsg(outer.call))
                              /\ pending' = outer.pending
                              /\ frames' = SubSeq(frames, 1, Len(frames) - 1)
                              /\ Outcome("tools", <<"goodbye", "tool_output">>, <<>>,
                                         "none")
                ELSE /\ frames' = frames
                     /\ \/ /\ messages' = Append(messages, UserMsg)
                           /\ pending' = <<>>
                           /\ Outcome("prompt", <<"checking", "error">>, <<"chat">>,
                                      "body")
                        \/ /\ messages' = messages \o <<UserMsg, AnswerMsg>>
                           /\ pending' = <<>>
                           /\ Outcome("prompt", <<"checking", "answer">>, <<"chat">>,
                                      "none")
                        \/ \E tool_call_ids \in ToolCallIds(turns') :
                              /\ messages' = messages \o
                                                <<UserMsg, ToolCallsMsg(tool_call_ids)>>
                              /\ pending' = tool_call_ids
                              /\ Outcome("tools", <<"checking", "tool_requested">>,
                                         <<"chat">>, "none")
    /\ UNCHANGED <<kernelVars, agentVars,
                   tmpl, env, store, built, results, pureVars>>

\* One pass of `for tool_call in response_message.tool_calls`.
FunctionCallingToolCall ==
    /\ pc = "tools"
    /\ tmpl = "function-calling"
    /\ pending # <<>>
    /\ \E kind \in ToolCallKinds :
       LET tool_call == [id |-> Head(pending), name |-> kind[1],
                         arguments |-> kind[2]]
           result == call_result(tool_call.name, tool_call.arguments)
       IN  CASE result = "raises" ->
                   /\ messages' = messages
                   /\ pending' = <<>>
                   /\ frames' = frames
                   /\ Outcome("prompt", <<"error">>, <<>>, "body")
             [] result = "returns" ->
                   /\ messages' = Append(messages, ToolMsg(tool_call.id))
                   /\ pending' = Tail(pending)
                   /\ frames' = frames
                   /\ Outcome("tools", <<"calling", "tool_output">>, <<>>, "none")
             [] result = "runs_main" ->
                   /\ Len(frames) < MaxDepth          \* the depth modelled
                   /\ \/ /\ messages' = messages       \* AzureOpenAI(...) raises
                         /\ pending' = <<>>
                         /\ frames' = frames
                         /\ Outcome("prompt", <<"calling", "error">>, <<>>, "body")
                      \/ /\ frames' = Append(frames, [messages |-> messages,
                                                      pending |-> Tail(pending),
                                                      call |-> tool_call.id])
                         /\ messages' = <<SystemMsg>>
                         /\ pending' = <<>>
                         /\ Outcome("prompt", <<"calling", "client_ok", "ready">>, <<>>,
                                    "none")
    /\ UNCHANGED <<kernelVars, agentVars,
                   tmpl, env, store, built, turns, user_input, results, pureVars>>

\* After the last tool call: the second request, the answer printed and
\* appended.
FunctionCallingFinal ==
    /\ pc = "tools"
    /\ tmpl = "function-calling"
    /\ pending = <<>>
    /\ \/ /\ messages' = messages
          /\ Outcome("prompt", <<"final_request", "error">>, <<"chat">>, "body")
       \/ /\ messages' = Append(messages, AnswerMsg)
          /\ Outcome("prompt", <<"final_request", "answer">>, <<"chat">>, "none")
    /\ UNCHANGED <<kernelVars, agentVars,
                   tmpl, env, store, built, turns, user_input, results, pending,
                   frames, pureVars>>

(***************************************************************************)
(* Spec: any template, under any setting of its environment variables.     *)
(***************************************************************************)
Init ==
    /\ pc = "start"
    /\ tmpl \in Templates
    /\ env \in Environments(tmpl)
    /\ store \in IF tmpl = "semantic-kernel-rag" THEN BOOLEAN ELSE {FALSE}
    /\ built = {}
    /\ turns = 0
    /\ user_input = <<>>
    /\ printed = <<>>
    /\ calls = <<>>
    /\ raised = "none"
    /\ excepted = FALSE
    /\ messages = <<>>
    /\ pending = <<>>
    /\ frames = <<>>
    /\ results = <<>>
    /\ tool_call_request = [kind |-> "none", name |-> "", arguments |-> ""]
    /\ tool_output = "none"
    /\ NoCos
    /\ NoChunk
    /\ NoRank
    /\ NoKernel

Next ==
    \/ BasicChatStart \/ BasicChatTurn
    \/ HuggingFaceStart \/ HuggingFaceTurn
    \/ SemanticSearchStart \/ SemanticSearchTurn
    \/ RagChatStart \/ RagChatTurn
    \/ BasicAgentStart \/ BasicAgentTurn
    \/ AgentLiteStart \/ AgentLiteTurn
    \/ SemanticKernelInitialize \/ SemanticKernelIngest \/ SemanticKernelTurn
    \/ FunctionCallingStart \/ FunctionCallingPrompt
    \/ FunctionCallingToolCall \/ FunctionCallingFinal

Spec == Init /\ [][Next]_vars

(***************************************************************************)
(* Properties of the interactive templates (Spec).                         *)
(***************************************************************************)
\* The last pass of the loop ran to its end with nothing raised, and the
\* loop is at its prompt again.
PassCompleted == pc = "prompt" /\ turns > 0 /\ raised = "none"

\* C5: when a search gives no row (the index is empty or every row is below
\* the threshold), display_results of the semantic-search template prints
\* the no-videos message and nothing else, no error is raised and the loop
\* prompts again; when memory.search_async of the semantic-kernel-rag
\* template gives nothing, the loop prints its could-not-find message, makes
\* no request to the chat model for that question and prompts again.
C5_EmptyResultIsReported ==
    /\ (/\ tmpl = "semantic-search"
        /\ PassCompleted
        /\ video_vectors = <<>>)
          => /\ printed = <<"no_videos">>
             /\ calls = <<"embeddings">>
    /\ (/\ tmpl = "semantic-kernel-rag"
        /\ PassCompleted
        /\ results = <<>>)
          => /\ printed = <<"searching", "not_found">>
             /\ calls = <<"search">>

\* C5's case: a search over an index of two rows, each with a similarity
\* that is a number below the threshold, has printed the no-videos message.
C5_Witness ==
    /\ tmpl = "semantic-search"
    /\ PassCompleted
    /\ Len(dataset) = 2
    /\ \A i \in 1..2 : IsFin(scores[i]) /\ ~FGe(scores[i], SIMILARITIES_RESULTS_THRESHOLD)
    /\ video_vectors = <<>>
    /\ printed = <<"no_videos">>

\* C6 as claimed: in every template, an exception raised while an input is
\* processed is caught and printed, and the loop prompts again (in
\* basic-chat it ends the loop); it never ends the process unhandled.
C6_Original ==
    (tmpl \in Templates /\ raised = "body")
        => /\ printed # <<>>
           /\ printed[Len(printed)] = "error"
           /\ pc = IF tmpl = "basic-chat" THEN "done" ELSE "prompt"

\* The variables a template cannot run without.
RequiredVars(t) ==
    IF t = "semantic-kernel-rag"
    THEN IF use_azure_openai
         THEN {"AZURE_OPENAI_DEPLOYMENT_NAME", "AZURE_OPENAI_API_KEY",
               "AZURE_OPENAI_ENDPOINT"}
         ELSE {"OPENAI_API_KEY"}
    ELSE EnvVars(t)

ConfigMissing == \E v \in RequiredVars(tmpl) : env[v] # "set"

\* C7 as claimed: in every template, when a required variable is unset or
\* empty the script prints its configuration message and ends, having built
\* or loaded nothing, made no request and read no input; and the message is
\* printed at startup only.
C7_Original ==
    /\ (tmpl \in Templates /\ pc # "start" /\ ConfigMissing)
          => /\ pc = "done"
             /\ printed = <<"config_error">>
             /\ built = {}
             /\ calls = <<>>
             /\ turns = 0
    /\ (tmpl \in Templates /\ turns > 0)
          => \A i \in DOMAIN printed : printed[i] # "config_error"

\* The spellings of exit among the lines.
ExitSpellings ==
    {<<"e", "x", "i", "t">>, <<"E", "X", "I", "T">>, <<"E", "x", "i", "t">>}

\* C8 as claimed: in every template, a line that spells exit ends the loop
\* and the script with no external request and the conversation state as it
\* was; and when nothing has been raised, the loop ends on such a line only.
C8_Original ==
    [][/\ (tmpl \in Templates /\ turns' = turns + 1 /\ user_input' \in ExitSpellings)
            => /\ pc' = "done"
               /\ calls' = <<>>
               /\ messages' = messages
       /\ (tmpl \in Templates /\ pc = "prompt" /\ pc' \in {"done", "crashed"}
              /\ ~excepted')
            => user_input' \in ExitSpellings]_vars


\* ---------------------------------------------------------------------
\* Claims about the RAG template's embeddings
\* ---------------------------------------------------------------------

Occurrences(s, x) == Cardinality({i \in DOMAIN s : s[i] = x})

\* A step of the RAG template that handles a query: a line was read and it
\* is not the exit command.
RagQueryHandled ==
    /\ tmpl = "rag-chat"
    /\ pc = "prompt"
    /\ turns' = turns + 1
    /\ raised' # "input"
    /\ ~IsExitCommand(user_input')

\* C11: in the RAG template the chunk embeddings are requested exactly
\* once, in the startup step that reaches the first prompt; every query
\* handled makes exactly one embeddings request; and no step taken from the
\* prompt changes the chunk list or the chunk embeddings.
C11_EmbeddingsRequestedOncePerText ==
    [][/\ (tmpl = "rag-chat" /\ pc = "start" /\ pc' = "prompt")
            => Occurrences(calls', "embeddings") = 1
       /\ RagQueryHandled => Occurrences(calls', "embeddings") = 1
       /\ (tmpl = "rag-chat" /\ pc = "prompt")
            => (chunks' = chunks /\ embeddings' = embeddings)]_vars

C11_Witness ==
    /\ tmpl = "rag-chat"
    /\ pc = "prompt"
    /\ turns = MaxTurns
    /\ Len(chunks) >= 2
    /\ Len(embeddings) = Len(chunks)
    /\ calls = <<"embeddings", "chat">>
    /\ printed = <<"answer">>


\* C12: in the RAG template, whenever a query can be or has been handled,
\* there is one embedding vector per chunk, every chunk vector and the query
\* vector have the same length, and every index the ranking chose is an
\* index of the chunk list.
C12_EmbeddingsMatchChunks ==
    (tmpl = "rag-chat" /\ pc = "prompt") =>
        /\ Len(embeddings) = Len(chunks)
        /\ \A i, j \in DOMAIN embeddings : Len(embeddings[i]) = Len(embeddings[j])
        /\ \A i \in DOMAIN embeddings :
              query_embedding # <<>> => Len(query_embedding) = Len(embeddings[i])
        /\ \A k \in DOMAIN top_indices : top_indices[k] \in DOMAIN chunks

C12_Witness ==
    /\ tmpl = "rag-chat"
    /\ pc = "prompt"
    /\ turns > 0
    /\ Len(chunks) = 3
    /\ Len(top_indices) = TOP_K_RESULTS
    /\ query_embedding # <<>>
    /\ printed = <<"answer">>


(***************************************************************************)
(* semantic-kernel-rag-app, step by step and over several process runs.    *)
(* ./chroma_db and ./web-dev-for-beginners outlive a run; every            *)
(* asynchronous operation is a start step and a completion step.           *)
(***************************************************************************)
MaxRuns == 2        \* process runs, one after another in the same directory
MaxFiles == 2       \* files under the lessons path
MaxChunks == 2      \* chunks split_markdown_lines makes of one file

\* The paths os.walk can list under the lessons path, in the order of the
\* walk: (root, file), a file name being its characters.
ReadmeMd == <<"a", ".", "m", "d">>
QuizMd == <<"b", ".", "m", "d">>
NotesTxt == <<"n", ".", "t", "x", "t">>
LessonPaths == << <<"1-intro", ReadmeMd>>, <<"1-intro", QuizMd>>,
                  <<"1-intro", NotesTxt>>, <<"2-loops", ReadmeMd>> >>

\* file.endswith(".md")
endswith_md(file) ==
    /\ Len(file) >= 3
    /\ SubSeq(file, Len(file) - 2, Len(file)) = <<".", "m", "d">>

\* The lesson trees: at most MaxFiles of the paths, each Markdown file with
\* the number of chunks its text splits into.
RECURSIVE TreesFrom(_, _)
TreesFrom(k, room) ==
    IF k > Len(LessonPaths) THEN {<<>>}
    ELSE LET path == LessonPaths[k]
             counts == IF endswith_md(path[2]) THEN 1..MaxChunks ELSE {0}
         IN  TreesFrom(k + 1, room)
             \cup (IF room = 0 THEN {}
                   ELSE {<<[root |-> path[1], file |-> path[2], n |-> n]>> \o t :
                            n \in counts, t \in TreesFrom(k + 1, room - 1)})
LessonTrees == TreesFrom(1, MaxFiles)

\* str(i) for i >= 0.
DigitChars == <<"0", "1", "2", "3", "4", "5", "6", "7", "8", "9">>
RECURSIVE str_int(_)
str_int(i) ==
    IF i < 10 THEN <<DigitChars[i + 1]>>
    ELSE str_int(i \div 10) \o <<DigitChars[(i % 10) + 1]>>

\* f"{file}_{i}"
chunk_id(root, file, i) == file \o <<"_">> \o str_int(i)

\* The chunks of a file, as enumerate(chunks) numbers them.
FileChunks(f) == [k \in 1..f.n |-> [root |-> f.root, file |-> f.file, i |-> k - 1]]

\* The saves the two loops of ingest_data make for a tree, in order: for
\* every file ending in .md, for every chunk, its id and the chunk.
RECURSIVE SavesOf(_)
SavesOf(tree) ==
    IF tree = <<>> THEN <<>>
    ELSE LET f == Head(tree)
             mine == IF endswith_md(f.file)
                     THEN [k \in 1..f.n |->
                             [id |-> chunk_id(f.root, f.file, k - 1),
                              chunk |-> FileChunks(f)[k]]]
                     ELSE <<>>
         IN  mine \o SavesOf(Tail(tree))

\* The chunks of every Markdown file of a tree.
LessonChunks(tree) ==
    UNION {{FileChunks(tree[k])[j] : j \in 1..tree[k].n} :
              k \in {k \in DOMAIN tree : endswith_md(tree[k].file)}}

\* The memory store's upsert: the record takes the place of the one with
\* its id, if any.
upsert(records, record) == {r \in records : r.id # record.id} \cup {record}

\* An asynchronous operation in flight.
Op(name, arg) == [op |-> name, arg |-> arg]
InFlight(name) == \E k \in DOMAIN inflight : inflight[k].op = name
Without(s, k) == SubSeq(s, 1, k - 1) \o SubSeq(s, k + 1, Len(s))
WithoutOp(s, name) ==
    IF \E k \in DOMAIN s : s[k].op = name
    THEN Without(s, CHOOSE k \in DOMAIN s : s[k].op = name)
    ELSE s

\* Where the caller is once it has started an operation: `await` suspends
\* it until the operation completes.
not_awaited(waiting, next) == next

await(waiting, next) == waiting

\* The lines of the console and the search results of these runs.
KernelLines == {<<"e", "x", "i", "t">>, <<"h", "i">>}
KernelSearchResults == {<<>>, << <<"t">> >>}
KernelEnvironments ==
    {e \in Environments("semantic-kernel-rag") :
        \A a, b \in DOMAIN e : e[a] = e[b] /\ e[a] # "empty"}


InitKernel ==
    /\ pc = "main"
    /\ tmpl = "semantic-kernel-rag"
    /\ env \in KernelEnvironments
    /\ run = 1
    /\ repo = FALSE
    /\ store = FALSE
    /\ collection = {}
    /\ files \in LessonTrees
    /\ written = <<>>
    /\ queue = <<>>
    /\ inflight = <<>>
    /\ built = {}
    /\ turns = 0
    /\ user_input = <<>>
    /\ printed = <<>>
    /\ calls = <<>>
    /\ raised = "none"
    /\ excepted = FALSE
    /\ messages = <<>>
    /\ pending = <<>>
    /\ frames = <<>>
    /\ results = <<>>
    /\ tool_call_request = [kind |-> "none", name |-> "", arguments |-> ""]
    /\ tool_output = "none"
    /\ NoCos
    /\ NoChunk
    /\ NoRank

kernelFrame == <<tmpl, env, run, files, fcVars, pureVars, agentVars>>

\* main, line 22: initialize_kernel_and_memory is called and awaited.
KernelCallInitialize ==
    /\ pc = "main"
    /\ inflight' = Append(inflight, Op("initialize_kernel_and_memory", 0))
    /\ Outcome(await("initialize", "ingest"), <<"initializing">>, <<>>, "none")
    /\ UNCHANGED <<kernelFrame, repo, store, collection, written, queue, built,
                   turns, user_input, results>>

\* initialize_kernel_and_memory runs to its end (it awaits nothing): a
\* settings call or the store's constructor raises, or it returns.
KernelInitializeDone ==
    /\ InFlight("initialize_kernel_and_memory")
    /\ inflight' = WithoutOp(inflight, "initialize_kernel_and_memory")
    /\ LET services == IF use_azure_openai THEN "azure_services"
                                           ELSE "openai_services"
           waited == pc = "initialize"
       IN  \/ /\ built' \in {built \cup {"kernel"}, built \cup {"kernel", services}}
              /\ Outcome(IF waited THEN "crashed" ELSE pc, <<>>, <<>>, "startup")
           \/ /\ built' = built \cup {"kernel", services, "memory"}
              /\ Outcome(IF waited THEN "ingest" ELSE pc, <<"initialized">>, <<>>,
                         "none")
    /\ UNCHANGED <<kernelFrame, repo, store, collection, written, queue, turns,
                   user_input, results>>

\* main, line 25, and ingest_data up to its first await, line 61.
KernelCallIngest ==
    /\ pc = "ingest"
    /\ inflight' = inflight \o <<Op("ingest_data", 0), Op("get_collections_async", 0)>>
    /\ Outcome(await("get_collections", "clone"), <<>>, <<"get_collections">>, "none")
    /\ UNCHANGED <<kernelFrame, repo, store, collection, written, queue, built,
                   turns, user_input, results>>

\* What get_collections_async returns: the names of the collections in
\* ./chroma_db.
COLLECTION_NAME == "web_dev_for_beginners"
get_collections_stale(exists) == {COLLECTION_NAME}

get_collections(exists) == IF exists THEN {COLLECTION_NAME} ELSE {}

\* get_collections_async completes, lines 61-66: with the collection among
\* those returned ingest_data returns; an exception is printed and
\* ingestion proceeds.
KernelGetCollectionsDone ==
    /\ InFlight("get_collections_async")
    /\ IF pc # "get_collections"
       THEN /\ inflight' = WithoutOp(inflight, "get_collections_async")
            /\ Outcome(pc, <<>>, <<>>, "none")
       ELSE \/ /\ COLLECTION_NAME \in get_collections(store)
               /\ inflight' = WithoutOp(WithoutOp(inflight, "get_collections_async"),
                                        "ingest_data")
               /\ Outcome("loop", <<"already_ingested">>, <<>>, "none")
            \/ /\ COLLECTION_NAME \notin get_collections(store)
               /\ inflight' = WithoutOp(inflight, "get_collections_async")
               /\ Outcome("clone", <<>>, <<>>, "none")
            \/ /\ inflight' = WithoutOp(inflight, "get_collections_async")
               /\ Outcome("clone", <<"check_failed">>, <<>>, "none")
    /\ UNCHANGED <<kernelFrame, repo, store, collection, written, queue, built,
                   turns, user_input, results>>

\* Lines 68-77: the repository is cloned if its directory is not there,
\* and the walk of the lessons path begins.
KernelClone ==
    /\ pc = "clone"
    /\ IF repo
       THEN /\ repo' = repo
            /\ queue' = SavesOf(files)
            /\ inflight' = inflight
            /\ Outcome("save", <<"cloning", "cloned", "processing">>, <<>>, "none")
       ELSE \/ /\ repo' = FALSE                        \* clone_from raises
               /\ queue' = queue
               /\ inflight' = WithoutOp(inflight, "ingest_data")
               /\ Outcome("crashed", <<"cloning">>, <<"clone">>, "startup")
            \/ /\ repo' = TRUE
               /\ queue' = SavesOf(files)
               /\ inflight' = inflight
               /\ Outcome("save", <<"cloning", "cloned", "processing">>, <<"clone">>,
                          "none")
    /\ UNCHANGED <<kernelFrame, store, collection, written, built, turns,
                   user_input, results>>

\* Lines 90-95: the next chunk's save is called and awaited.
KernelCallSave ==
    /\ pc = "save"
    /\ queue # <<>>
    /\ written' = Append(written, Head(queue))
    /\ queue' = Tail(queue)
    /\ inflight' = Append(inflight, Op("save_information_async", Len(written) + 1))
    /\ Outcome(await("saving", "save"), <<>>, <<"save">>, "none")
    /\ UNCHANGED <<kernelFrame, repo, store, collection, built, turns, user_input,
                   results>>

\* save_information_async completes: it creates the collection if there is
\* none, embeds the text and upserts the record; an exception (of the
\* embedding request, say) goes up through ingest_data and main.
KernelSaveDone ==
    /\ \E k \in DOMAIN inflight :
          /\ inflight[k].op = "save_information_async"
          /\ LET waited == pc = "saving"
             IN  \/ /\ store' = TRUE
                    /\ collection' = upsert(collection, written[inflight[k].arg])
                    /\ inflight' = Without(inflight, k)
                    /\ Outcome(IF waited THEN "save" ELSE pc, <<>>, <<"embeddings">>,
                               "none")
                 \/ /\ store' \in {store, TRUE}
                    /\ collection' = collection
                    /\ inflight' = IF waited
                                   THEN WithoutOp(Without(inflight, k), "ingest_data")
                                   ELSE Without(inflight, k)
                    /\ Outcome(IF waited THEN "crashed" ELSE pc, <<>>, <<"embeddings">>,
                               "startup")
    /\ UNCHANGED <<kernelFrame, repo, written, queue, built, turns, user_input,
                   results>>

\* Line 98: the walk is over and ingest_data returns.
KernelIngestDone ==
    /\ pc = "save"
    /\ queue = <<>>
    /\ inflight' = WithoutOp(inflight, "ingest_data")
    /\ built' = built \cup {"collection"}
    /\ Outcome("loop", <<"ingested">>, <<>>, "none")
    /\ UNCHANGED <<kernelFrame, repo, store, collection, written, queue, turns,
                   user_input, results>>

\* main, line 28, and interactive_qa_loop up to its first prompt.
KernelCallLoop ==
    /\ pc = "loop"
    /\ inflight' = Append(inflight, Op("interactive_qa_loop", 0))
    /\ built' = built \cup {"rag_function"}
    /\ Outcome("prompt", <<"ready">>, <<>>, "none")
    /\ UNCHANGED <<kernelFrame, repo, store, collection, written, queue, turns,
                   user_input, results>>

\* Lines 126-133: a line is read; exit ends the loop, any other line starts
\* the search, which is awaited.
KernelReadLine ==
    /\ pc = "prompt"
    /\ turns < MaxTurns
    /\ turns' = turns + 1
    /\ \/ /\ user_input' = <<>>                        \* input() raises EOFError
          /\ inflight' = inflight
          /\ Outcome("prompt", <<"error">>, <<>>, "input")
       \/ \E line \in KernelLines :
             /\ user_input' = line
             /\ IF IsExitCommand(line)
                THEN /\ inflight' = WithoutOp(inflight, "interactive_qa_loop")
                     /\ Outcome("done", <<"goodbye">>, <<>>, "none")
                ELSE /\ inflight' = Append(inflight, Op("search_async", 0))
                     /\ Outcome(await("search", "chat"), <<"searching">>,
                                <<"search">>, "none")
    /\ UNCHANGED <<kernelFrame, repo, store, collection, written, queue, built,
                   results>>

\* search_async completes, lines 133-138: it gives texts of the collection.
KernelSearchDone ==
    /\ InFlight("search_async")
    /\ inflight' = WithoutOp(inflight, "search_async")
    /\ LET waited == pc = "search"
       IN  \/ /\ results' = results
              /\ Outcome(IF waited THEN "prompt" ELSE pc, <<"error">>, <<>>, "body")
           \/ \E found \in KernelSearchResults :
                 /\ Len(found) <= Cardinality(collection)
                 /\ results' = found
                 /\ IF join_lines(found) = <<>>
                    THEN Outcome(IF waited THEN "prompt" ELSE pc, <<"not_found">>,
                                 <<>>, "none")
                    ELSE Outcome(IF waited THEN "chat" ELSE pc, <<>>, <<>>, "none")
    /\ UNCHANGED <<kernelFrame, repo, store, collection, written, queue, built,
                   turns, user_input>>

\* Lines 140-148: the semantic function is run and awaited.
KernelCallChat ==
    /\ pc = "chat"
    /\ inflight' = Append(inflight, Op("run_async", 0))
    /\ Outcome(await("generating", "prompt"), <<"generating">>, <<"chat">>, "none")
    /\ UNCHANGED <<kernelFrame, repo, store, collection, written, queue, built,
                   turns, user_input, results>>

\* run_async completes, lines 149-152.
KernelChatDone ==
    /\ InFlight("run_async")
    /\ inflight' = WithoutOp(inflight, "run_async")
    /\ LET waited == pc = "generating"
       IN  \/ Outcome(IF waited THEN "prompt" ELSE pc, <<"error">>, <<>>, "body")
           \/ Outcome(IF waited THEN "prompt" ELSE pc, <<"answer">>, <<>>, "none")
    /\ UNCHANGED <<kernelFrame, repo, store, collection, written, queue, built,
                   turns, user_input, results>>

\* The process has ended; the script is run again in the same directory.
\* What lives in the process is gone, ./chroma_db and the clone are kept.
KernelRunAgain ==
    /\ pc \in {"done", "crashed"}
    /\ run < MaxRuns
    /\ run' = run + 1
    /\ pc' = "main"
    /\ built' = {}
    /\ turns' = 0
    /\ user_input' = <<>>
    /\ printed' = <<>>
    /\ calls' = <<>>
    /\ raised' = "none"
    /\ excepted' = FALSE
    /\ results' = <<>>
    /\ written' = <<>>
    /\ queue' = <<>>
    /\ inflight' = <<>>
    /\ UNCHANGED <<tmpl, env, files, fcVars, pureVars, agentVars, repo, store,
                   collection>>

NextKernel ==
    \/ KernelCallInitialize \/ KernelInitializeDone
    \/ KernelCallIngest \/ KernelGetCollectionsDone
    \/ KernelClone
    \/ KernelCallSave \/ KernelSaveDone \/ KernelIngestDone
    \/ KernelCallLoop
    \/ KernelReadLine \/ KernelSearchDone
    \/ KernelCallChat \/ KernelChatDone
    \/ KernelRunAgain

SpecKernel == InitKernel /\ [][NextKernel]_vars


\* ---------------------------------------------------------------------
\* Claims about the Semantic Kernel RAG template's ingestion and awaits
\* ---------------------------------------------------------------------

\* The chunks this run's ingestion has saved or begun to save.
WrittenChunks == {written[k].chunk : k \in DOMAIN written}

\* The run can retrieve: it is in interactive_qa_loop.
Retrieving == pc \in {"prompt", "search", "chat", "generating"}

\* C13 as stated: whenever a run of the Semantic Kernel RAG template can
\* retrieve, that same run has chunked and saved every chunk of the course
\* files.
C13_Original ==
    (tmpl = "semantic-kernel-rag" /\ Retrieving)
        => WrittenChunks = LessonChunks(files)

\* C13: a run of the Semantic Kernel RAG template that can retrieve has
\* either chunked and saved every chunk of the course files itself, or it
\* is a later run that saved nothing and retrieves from the collection an
\* earlier run left in ./chroma_db.
C13_PersistedCollectionIsReused ==
    (tmpl = "semantic-kernel-rag" /\ Retrieving) =>
        \/ /\ "collection" \in built
           /\ WrittenChunks = LessonChunks(files)
        \/ /\ "collection" \notin built
           /\ written = <<>>
           /\ run > 1
           /\ store

C13_Witness ==
    /\ tmpl = "semantic-kernel-rag"
    /\ run = 2
    /\ pc = "prompt"
    /\ written = <<>>
    /\ "collection" \notin built
    /\ Cardinality(collection) >= 2
    /\ results # <<>>
    /\ printed = <<"answer">>


\* The operations of the memory and the kernel the script awaits, and the
\* coroutines of the script main awaits.
LibraryOps == {"get_collections_async", "save_information_async", "search_async",
               "run_async"}
ScriptOps == {"initialize_kernel_and_memory", "ingest_data", "interactive_qa_loop"}
CountInFlight(names) == Cardinality({k \in DOMAIN inflight : inflight[k].op \in names})

\* C14: the Semantic Kernel RAG template has at most one coroutine of main
\* and at most one operation of the library in flight, the latter started
\* by the former; ingestion is in flight only after initialization has
\* completed, a line is read only after ingestion has completed with no
\* save left to make or complete, no two saves are in flight together and
\* the chat call is in flight only after the search has completed.
C14_AwaitsAreSequential ==
    tmpl = "semantic-kernel-rag" =>
        /\ CountInFlight(ScriptOps) <= 1
        /\ CountInFlight(LibraryOps) <= 1
        /\ InFlight("initialize_kernel_and_memory") => CountInFlight(LibraryOps) = 0
        /\ InFlight("ingest_data")
              => /\ "memory" \in built
                 /\ ~InFlight("search_async") /\ ~InFlight("run_async")
        /\ (InFlight("interactive_qa_loop") \/ Retrieving)
              => /\ "memory" \in built
                 /\ queue = <<>>
                 /\ ~InFlight("get_collections_async")
                 /\ ~InFlight("save_information_async")
        /\ pc = "prompt" => inflight = <<Op("interactive_qa_loop", 0)>>
        /\ CountInFlight({"save_information_async"}) <= 1
        /\ InFlight("run_async") => ~InFlight("search_async")

C14_Witness ==
    /\ tmpl = "semantic-kernel-rag"
    /\ pc = "generating"
    /\ inflight = <<Op("interactive_qa_loop", 0), Op("run_async", 0)>>
    /\ Len(written) >= 2
    /\ "collection" \in built

\* C19 as stated: the saves of one ingestion carry pairwise different ids.
C19_Original ==
    tmpl = "semantic-kernel-rag" =>
        \A j, k \in DOMAIN written : j # k => written[j].id # written[k].id

\* The collection holds every chunk of every Markdown lesson file.
CollectionComplete ==
    \A c \in LessonChunks(files) : \E r \in collection : r.chunk = c

\* C20 as stated: when get_collections_async completes, ingestion is
\* skipped exactly if the collection exists and the check did not fail; a
\* clone is made only if the directory does not exist; and when ingestion
\* is skipped the collection holds every chunk of every lesson file.
C20_Original ==
    [][/\ (tmpl = "semantic-kernel-rag" /\ pc = "get_collections")
            => /\ (pc' = "loop") <=> (store /\ printed' # <<"check_failed">>)
               /\ (pc' = "loop") => CollectionComplete
       /\ (tmpl = "semantic-kernel-rag" /\ pc = "clone")
            => (("clone" \in {calls'[k] : k \in DOMAIN calls'}) => ~repo)]_vars

\* The conditions of C20 alone: skipping and cloning happen when stated.
C20_Conditions ==
    [][/\ (tmpl = "semantic-kernel-rag" /\ pc = "get_collections")
            => ((pc' = "loop") <=> (store /\ printed' # <<"check_failed">>))
       /\ (tmpl = "semantic-kernel-rag" /\ pc = "clone")
            => (("clone" \in {calls'[k] : k \in DOMAIN calls'}) <=> ~repo)]_vars


\* ---------------------------------------------------------------------
\* Claims about the function-calling template's history and tool calls
\* ---------------------------------------------------------------------

HasToolCalls(message) == message.role = "assistant" /\ message.tool_calls # <<>>

\* The tool-calls message at position k is followed by one tool message for
\* each of its ids, in the order of the ids.
Answered(history, k) ==
    LET ids == history[k].tool_calls
    IN  /\ k + Len(ids) <= Len(history)
        /\ \A j \in DOMAIN ids : history[k + j] = ToolMsg(ids[j])

\* The last tool-calls message of the history is there and is answered, and
\* nothing but its tool messages follows it.
LastToolCallsAnswered(history) ==
    /\ \E k \in DOMAIN history : HasToolCalls(history[k])
    /\ LET k == CHOOSE k \in DOMAIN history :
                   /\ HasToolCalls(history[k])
                   /\ \A j \in DOMAIN history : HasToolCalls(history[j]) => j <= k
       IN  Answered(history, k) /\ k + Len(history[k].tool_calls) = Len(history)

\* A step that ends a pass of the loop whose response carried tool calls.
ToolPassEnds ==
    /\ tmpl = "function-calling"
    /\ pc = "tools"
    /\ pc' = "prompt"
    /\ Len(frames') <= Len(frames)

\* C15 as stated: a pass of the function-calling loop whose response
\* carried tool calls ends with the second request sent, made on a history
\* in which the tool-calls message is followed by one tool message per
\* call, in order; a pass whose response carried none makes the first
\* request only and appends the response as the answer.
C15_Original ==
    [][/\ ToolPassEnds
            => /\ calls' = <<"chat">>
               /\ LastToolCallsAnswered(
                      IF printed' = <<"final_request", "answer">>
                      THEN SubSeq(messages', 1, Len(messages') - 1)
                      ELSE messages')
       /\ (tmpl = "function-calling" /\ pc = "prompt" /\ pc' = "prompt"
           /\ raised' = "none" /\ frames' = frames)
            => /\ calls' = <<"chat">>
               /\ messages' = messages \o <<UserMsg, AnswerMsg>>]_vars

\* Every tool-calls message of the history is answered and the history does
\* not end with a request of the user.
WellFormed(history) ==
    /\ \A k \in DOMAIN history : HasToolCalls(history[k]) => Answered(history, k)
    /\ history # <<>> => history[Len(history)].role # "user"

\* C17 as stated: at every prompt of the function-calling template the
\* history is well formed, whatever turns came before.
C17_Original ==
    (tmpl = "function-calling" /\ pc = "prompt") => WellFormed(messages)

\* The tools declared in the `tools` list sent to the API.
DeclaredTools == {"get_current_weather"}

\* The functions of the module entered through a tool call and running.
RunningThroughToolCall == IF frames = <<>> THEN {} ELSE {"main"}

\* C18 as stated: in the function-calling template a tool call runs no
\* function but a declared tool.
C18_Original ==
    tmpl = "function-calling" => RunningThroughToolCall \subseteq DeclaredTools


\* ---------------------------------------------------------------------
\* Claim about the basic-agent template's tool lookup
\* ---------------------------------------------------------------------

\* C16 as stated: after a pass of the basic-agent loop whose tool call
\* names no key of AVAILABLE_TOOLS, no tool was run, the tool output is the
\* not-found text and the final answer was requested with it.
C16_Original ==
    (/\ tmpl = "basic-agent"
     /\ pc = "prompt"
     /\ tool_call_request.kind = "call"
     /\ tool_call_request.name \notin AVAILABLE_TOOLS)
        => /\ tool_output = "not_found"
           /\ \A k \in DOMAIN printed : printed[k] # "tool_output"
           /\ calls = <<"chat", "chat">>

====
